---- MODULE Spec2Model ----
(***************************************************************************)
(* ClusterMark - Cluster Annotation Workflow Engine.                       *)
(*                                                                         *)
(* The persisted store (Episode / Cluster / Image rows) and the three      *)
(* mutating server operations behind the client calls                      *)
(*   clusterApi.markOutliers     POST /clusters/{id}/outliers              *)
(*   clusterApi.annotateBatch    POST /clusters/{id}/annotate-batch        *)
(*   clusterApi.annotateOutliers POST /clusters/annotate-outliers          *)
(* The server implementation (backend/app/services/cluster_service.py) is  *)
(* not part of the frontend sources; the operations below follow the       *)
(* design description sections 3, 4.2, 4.3, 4.4, 5 and 7.  The error       *)
(* checks of an operation are made in the order the description lists      *)
(* them.  Request inputs range over existing clusters and images only      *)
(* (NotFound is not modelled) and is_custom_label, which touches no        *)
(* persisted field of the data model, is left out.  A property of an       *)
(* operation is stated for every request against every reachable store:    *)
(* the store of the current state is the store the request finds.          *)
(***************************************************************************)
EXTENDS Integers, FiniteSets, Sequences, TLC

VARIABLES image, cluster, episode, last

\* the state of the annotation page (AnnotationPage): the workflow
\* controller of one cluster, and the mutating requests that were sent and
\* have not been answered
VARIABLES session, step, submitting, error,
          clusterData, outliersLoading, outliersLoadError,
          currentPage, pageSize, paginatedData, loading,
          selectedOutlierImages, outlierAnnotations, batchLabel,
          inflight

\* the variables of the annotation page
page_vars ==
    <<session, step, submitting, error,
      clusterData, outliersLoading, outliersLoadError,
      currentPage, pageSize, paginatedData, loading,
      selectedOutlierImages, outlierAnnotations, batchLabel,
      inflight>>

\* the responses of superseded fetches (effect runs whose cleanup has run)
\* that have not arrived yet
VARIABLES superseded

\* a function of the frontend applied to an argument: the argument as the
\* caller holds it after the call (input) and what the call returned (output)
VARIABLES input, output

\* one LabelDropdown: its props and state (dropdown) and the onChange calls
\* it has made (reported)
VARIABLES dropdown, reported

\* the annotate_batch transactions the server has open, one per cluster
VARIABLES txn

\* the variables outside the annotation page's useState
other_vars == <<input, output, dropdown, reported, txn>>

vars == <<image, cluster, episode, last, page_vars, superseded, other_vars>>

(***************************************************************************)
(* Bounds and fixed data of the store.                                     *)
(***************************************************************************)
\* number of Image rows created on ingestion
NumImages == 3

Images == 1..NumImages

Clusters == {"cA", "cB"}

\* owning cluster of an image: fixed at creation (the last image belongs
\* to cluster cB, every other image to cluster cA)
ClusterOf(i) == IF i = NumImages THEN "cB" ELSE "cA"

ImagesOf(c) == {i \in Images : ClusterOf(i) = c}

\* nullable columns: no label / no timestamp
NoLabel == <<>>

NoTime == 0

\* annotated_at is kept relative to the call under way: Before is any time
\* before that call, Now is the time of the call
Before == 1

Now == 2

\* person names as character sequences, so that trimming is computed
ValidNames == {<<"R">>, <<"M">>}

\* the person_name entered for an outlier image (one label per image)
OutlierName(i) == IF i % 2 = 1 THEN <<"R">> ELSE <<"M">>

PersonNames == ValidNames \cup {<<>>, <<" ">>}

RECURSIVE TrimLeft(_)
TrimLeft(s) == IF s # <<>> /\ Head(s) = " " THEN TrimLeft(Tail(s)) ELSE s

RECURSIVE TrimRight(_)
TrimRight(s) ==
    IF s # <<>> /\ s[Len(s)] = " " THEN TrimRight(SubSeq(s, 1, Len(s) - 1)) ELSE s

Trim(s) == TrimRight(TrimLeft(s))

(***************************************************************************)
(* The store as one value: db = [image, cluster, episode].                 *)
(***************************************************************************)
Store == [image |-> image, cluster |-> cluster, episode |-> episode]

OutliersOf(db, c) ==
    {i \in ImagesOf(c) : db.image[i].annotation_status = "outlier"}

PendingOf(db, c) ==
    {i \in ImagesOf(c) : db.image[i].annotation_status = "pending"}

AnnotatedOf(db, c) ==
    {i \in ImagesOf(c) : db.image[i].annotation_status = "annotated"}

\* an id of the request that is not an image of the cluster of the request
OwnershipViolated(c, ids) == \E i \in ids : ClusterOf(i) # c

(***************************************************************************)
(* Results of an operation: the outcome, the store it leaves and the count *)
(* it returns.  A rejected operation leaves the store as it found it.      *)
(***************************************************************************)
Reject(db, err) == [result |-> err, db |-> db, count |-> 0]

Accept(db, n) == [result |-> "ok", db |-> db, count |-> n]

(***************************************************************************)
(* 4.2 Outlier Synchronizer: mark_outliers(cluster_id, outlier_image_ids). *)
(***************************************************************************)
\* two-way synchronisation of one image status; selected: the id is in
\* outlier_image_ids; mine: the image belongs to the cluster of the request
SyncStatusMarkOnly(st, selected, mine) ==
    IF st = "annotated" THEN st
    ELSE IF selected THEN "outlier"
    ELSE st

\* variant that does not exclude annotated images
SyncStatusAll(st, selected, mine) ==
    IF selected THEN "outlier"
    ELSE IF mine /\ st = "outlier" THEN "pending"
    ELSE st

SyncStatus(st, selected, mine) ==
    IF st = "annotated" THEN st
    ELSE IF selected THEN "outlier"
    ELSE IF mine /\ st = "outlier" THEN "pending"
    ELSE st

SyncImages(db, c, ids) ==
    [i \in Images |->
        [db.image[i] EXCEPT !.annotation_status =
            SyncStatus(@, i \in ids, ClusterOf(i) = c)]]

\* cluster.outlier_count and cluster.has_outliers recomputed from the images
RecomputeOutliersAdding(cl, n) ==
    [cl EXCEPT !.outlier_count = @ + n, !.has_outliers = (@ \/ n > 0)]

RecomputeOutliers(cl, n) ==
    [cl EXCEPT !.outlier_count = n, !.has_outliers = (n > 0)]

MarkOutliersApply(db, c, ids) ==
    LET img == SyncImages(db, c, ids)
        n   == Cardinality({i \in ImagesOf(c) : img[i].annotation_status = "outlier"})
    IN  Accept([db EXCEPT !.image = img,
                          !.cluster[c] = RecomputeOutliers(@, n)], n)

MarkOutliersUnchecked(db, c, ids) == MarkOutliersApply(db, c, ids)

MarkOutliers(db, c, ids) ==
    IF OwnershipViolated(c, ids)
    THEN Reject(db, "OwnershipViolation")
    ELSE MarkOutliersApply(db, c, ids)

(***************************************************************************)
(* 4.4 Outlier Annotation Operator: annotate_outliers(cluster_id, anns);   *)
(* anns maps each supplied image_id to its person_name, t is the time of   *)
(* the call.                                                               *)
(***************************************************************************)
AnnotateImage(im, name, t) ==
    [im EXCEPT !.current_label = name,
               !.annotation_status = "annotated",
               !.annotated_at = t]

\* variant that also completes the cluster and counts it in the episode
AnnotateOutliersCompleting(db, c, anns, t) ==
    Accept([db EXCEPT !.image =
               [i \in Images |->
                   IF i \in DOMAIN anns
                   THEN AnnotateImage(db.image[i], anns[i], t)
                   ELSE db.image[i]],
                      !.cluster[c].annotation_status = "completed",
                      !.episode.annotated_clusters = @ + 1],
           Cardinality(DOMAIN anns))

AnnotateOutliersApply(db, c, anns, t) ==
    Accept([db EXCEPT !.image =
               [i \in Images |->
                   IF i \in DOMAIN anns
                   THEN AnnotateImage(db.image[i], anns[i], t)
                   ELSE db.image[i]]],
           Cardinality(DOMAIN anns))

\* variant that trusts the supplied ids to be scoped to the cluster
AnnotateOutliersTrusting(db, c, anns, t) ==
    IF \E i \in DOMAIN anns : db.image[i].annotation_status # "outlier"
    THEN Reject(db, "ValidationError")
    ELSE AnnotateOutliersApply(db, c, anns, t)

\* variant that accepts an incomplete outlier set
AnnotateOutliersSubset(db, c, anns, t) ==
    IF OwnershipViolated(c, DOMAIN anns)
    THEN Reject(db, "OwnershipViolation")
    ELSE IF ~(DOMAIN anns \subseteq OutliersOf(db, c))
    THEN Reject(db, "ValidationError")
    ELSE AnnotateOutliersApply(db, c, anns, t)

AnnotateOutliers(db, c, anns, t) ==
    IF OwnershipViolated(c, DOMAIN anns)
    THEN Reject(db, "OwnershipViolation")
    ELSE IF DOMAIN anns # OutliersOf(db, c)
    THEN Reject(db, "ValidationError")
    ELSE AnnotateOutliersApply(db, c, anns, t)

(***************************************************************************)
(* 4.3 Batch Annotation Operator: annotate_batch(cluster_id, person_name). *)
(* The transaction has three steps; failAt = k > 0 is a failure met before *)
(* step k (the steps before it have been applied to the transaction),      *)
(* failAt = 0 is a run without failure.                                    *)
(***************************************************************************)
BatchSteps == 3

\* variant of step 1: every image of the cluster that is not an outlier
LabelNonOutlier(db, c, name, t) ==
    [db EXCEPT !.image =
        [i \in Images |->
            IF ClusterOf(i) = c /\ db.image[i].annotation_status # "outlier"
            THEN AnnotateImage(db.image[i], name, t)
            ELSE db.image[i]]]

\* step 1: every pending image of the cluster
LabelPending(db, c, name, t) ==
    [db EXCEPT !.image =
        [i \in Images |->
            IF ClusterOf(i) = c /\ db.image[i].annotation_status = "pending"
            THEN AnnotateImage(db.image[i], name, t)
            ELSE db.image[i]]]

\* variant of step 2 that stores the name and leaves the status
CompleteClusterNameOnly(db, c, name) ==
    [db EXCEPT !.cluster[c].person_name = name]

\* step 2: cluster.person_name, cluster completed
CompleteCluster(db, c, name) ==
    [db EXCEPT !.cluster[c].person_name = name,
               !.cluster[c].annotation_status = "completed"]

\* step 3: episode.annotated_clusters
IncrementEpisode(db) ==
    [db EXCEPT !.episode.annotated_clusters = @ + 1]

\* the transaction after its first k steps
BatchPrefix(db, c, name, t, k) ==
    LET s1 == IF k >= 1 THEN LabelPending(db, c, name, t) ELSE db
        s2 == IF k >= 2 THEN CompleteCluster(s1, c, name) ELSE s1
    IN  IF k >= 3 THEN IncrementEpisode(s2) ELSE s2

\* variant without rollback: the steps made before the failure stay
RollbackNone(db, partial) == partial

\* a failed transaction: none of its mutation is visible
Rollback(db, partial) == db

\* variant without the AlreadyCompleted check
AnnotateBatchRepeatable(db, c, name, t, failAt) ==
    IF Trim(name) = <<>>
    THEN Reject(db, "ValidationError")
    ELSE IF failAt # 0
    THEN Reject(Rollback(db, BatchPrefix(db, c, name, t, failAt - 1)), "Failed")
    ELSE Accept(BatchPrefix(db, c, name, t, BatchSteps), 0)

AnnotateBatch(db, c, name, t, failAt) ==
    IF db.cluster[c].annotation_status = "completed"
    THEN Reject(db, "AlreadyCompleted")
    ELSE IF Trim(name) = <<>>
    THEN Reject(db, "ValidationError")
    ELSE IF failAt # 0
    THEN Reject(Rollback(db, BatchPrefix(db, c, name, t, failAt - 1)), "Failed")
    ELSE Accept(BatchPrefix(db, c, name, t, BatchSteps), 0)

(***************************************************************************)
(* 4.1 Pagination Service: get_page(cluster_id, page, page_size).  The     *)
(* images of the cluster in identifier order, cut into pages.  The page    *)
(* sizes offered to the reviewer (10, 20, 50) and the largest accepted     *)
(* page size (100) are scaled to the number of images of the model, so     *)
(* that a cluster fills several pages.                                     *)
(***************************************************************************)
PageSizes == {1, 2}

MaxPageSize == 3

\* the ids of a set of images in identifier order
RECURSIVE InOrder(_)
InOrder(S) ==
    IF S = {} THEN <<>>
    ELSE LET m == CHOOSE x \in S : \A y \in S : x <= y
         IN  <<m>> \o InOrder(S \ {m})

\* the image record of a response: the id and the persisted fields
ImageOut(db, i) ==
    [id |-> i,
     annotation_status |-> db.image[i].annotation_status,
     current_label |-> db.image[i].current_label]

HasNext(offset, size, total) == offset + size < total

\* variant that leaves the outlier images out of the page stream
PageStreamPending(db, c) ==
    InOrder({i \in ImagesOf(c) : db.image[i].annotation_status # "outlier"})

\* the images get_page cuts into pages
PageStream(db, c) == InOrder(ImagesOf(c))

\* variant that starts a page at the last image of the page before
SliceOverlapping(all, offset, size) ==
    LET from == IF offset = 0 THEN 1 ELSE offset
        to   == IF offset + size < Len(all) THEN offset + size ELSE Len(all)
    IN  SubSeq(all, from, to)

\* the images offset + 1 .. offset + size of the stream
Slice(all, offset, size) ==
    LET to == IF offset + size < Len(all) THEN offset + size ELSE Len(all)
    IN  SubSeq(all, offset + 1, to)

GetPage(db, c, page, size) ==
    IF size > MaxPageSize
    THEN [result |-> "ValidationError", images |-> <<>>, total_count |-> 0,
          page |-> page, page_size |-> size, has_next |-> FALSE, has_prev |-> FALSE]
    ELSE LET all    == PageStream(db, c)
             offset == (page - 1) * size
             ids    == Slice(all, offset, size)
         IN  [result |-> "ok",
              images |-> [k \in 1..Len(ids) |-> ImageOut(db, ids[k])],
              total_count |-> Len(all),
              page |-> page,
              page_size |-> size,
              has_next |-> HasNext(offset, size, Len(all)),
              has_prev |-> page > 1]

\* the image ids of a response, in the order of the response
PageIds(r) == [k \in 1..Len(r.images) |-> r.images[k].id]

\* ceil(n / size)
PageCount(n, size) == (n + size - 1) \div size

(***************************************************************************)
(* State machine: the store after ingestion and one action per operation.  *)
(* last observes the latest call: operation, outcome and what the call did *)
(* to the store it found.                                                  *)
(***************************************************************************)
InitImage ==
    [current_label |-> NoLabel, annotation_status |-> "pending", annotated_at |-> NoTime]

InitCluster ==
    [annotation_status |-> "pending", person_name |-> NoLabel,
     has_outliers |-> FALSE, outlier_count |-> 0]

InitEpisode ==
    [annotated_clusters |-> 0, total_clusters |-> Cardinality(Clusters)]

Call(op, r, note) ==
    [op |-> op, result |-> r.result, note |-> note]

\* what an accepted mark_outliers call did: it reset an outlier and left
\* or made another one (overwrite), it reset the last outliers (clear), it
\* repeated the non-empty set the store already held (repeat), it named
\* an image that was already annotated (kept); for a rejected call, whether the request mixed images of the cluster with
\* foreign ones
MarkNote(db, c, ids, r) ==
    IF r.result # "ok"
    THEN IF ids \cap ImagesOf(c) # {} THEN "mixed" ELSE ""
    ELSE IF OutliersOf(db, c) \ ids # {}
    THEN IF OutliersOf(r.db, c) # {} THEN "overwrite" ELSE "clear"
    ELSE IF r.db = db /\ ids # {} /\ ids = OutliersOf(db, c) THEN "repeat"
    ELSE IF ids \cap AnnotatedOf(db, c) # {} THEN "kept"
    ELSE ""

\* how the supplied ids of an annotate_outliers call relate to the outliers
\* of the cluster
OutliersNote(db, c, ids, r) ==
    IF r.result = "OwnershipViolation"
    THEN IF ids \cap ImagesOf(c) # {} THEN "mixed" ELSE ""
    ELSE IF r.result = "ok"
    THEN IF ids # {} THEN "labelled" ELSE ""
    ELSE IF ids \subseteq OutliersOf(db, c) THEN "subset"
    ELSE IF OutliersOf(db, c) \subseteq ids THEN "superset"
    ELSE ""

\* an accepted annotate_batch call that found pending images next to outlier
\* or annotated ones (partial); a failed one that had labelled images in
\* its transaction (undone)
BatchNote(db, c, failAt, r) ==
    IF r.result = "ok"
    THEN IF PendingOf(db, c) # {} /\ PendingOf(db, c) # ImagesOf(c) THEN "partial" ELSE ""
    ELSE IF r.result = "Failed" /\ failAt >= 2 /\ PendingOf(db, c) # {} THEN "undone"
    ELSE ""

\* a get_page response of a cluster of several pages that shows an outlier
\* image (outlier); a last page after the first one (last)
PageNote(r) ==
    IF r.result # "ok" THEN ""
    ELSE IF /\ r.has_next \/ r.has_prev
            /\ \E k \in 1..Len(r.images) : r.images[k].annotation_status = "outlier"
    THEN "outlier"
    ELSE IF r.has_prev /\ ~r.has_next /\ r.images # <<>> THEN "last"
    ELSE ""

(***************************************************************************)
(* 4.5 Workflow Controller: the annotation page of one cluster.  A session *)
(* is one mounted instance of the page; leaving the page and opening it    *)
(* again (or reloading it) starts the next session with fresh state.       *)
(* Labels reach the page from the label control, which reports the empty   *)
(* label (placeholder) or a non-empty trimmed one.  The speakers list and  *)
(* the is_custom flags are left out.                                       *)
(***************************************************************************)
\* the cluster of the route /annotate/:clusterId
ClusterId == "cA"

\* number of times the page is opened
MaxSessions == 2

\* useState(20), scaled like PageSizes
DefaultPageSize == 2

\* useState<Cluster | null>(null), and whether the metadata fetch of the
\* mount effect is awaited
NoCluster == [loaded |-> FALSE, has_outliers |-> FALSE, fetching |-> TRUE]

\* useState<PaginatedImagesResponse | null>(null)
NoPage ==
    [result |-> "none", images |-> <<>>, total_count |-> 0,
     page |-> 0, page_size |-> 0, has_next |-> FALSE, has_prev |-> FALSE]

\* new Map()
NoEntries == <<>>

\* the state of a freshly mounted page: the initial values of useState and
\* the three fetches the mount effects have started (metadata, persisted
\* outliers, first page)
InitialPage ==
    [step |-> "review", submitting |-> FALSE, error |-> FALSE,
     clusterData |-> NoCluster,
     outliersLoading |-> TRUE, outliersLoadError |-> FALSE,
     currentPage |-> 1, pageSize |-> DefaultPageSize,
     paginatedData |-> NoPage, loading |-> TRUE,
     selectedOutlierImages |-> NoEntries, outlierAnnotations |-> NoEntries,
     batchLabel |-> NoLabel]

\* no function has been applied
NoCall == <<>>

\* useState("") / useState("") / useState(false) of a LabelDropdown
\* rendered without a value
\* no handler of the dropdown has run yet: nothing was reported
NoReports == [event |-> "mount", key |-> "", text |-> NoLabel, calls |-> <<>>]

\* a cluster without a transaction
NoTransaction == [pc |-> "none", person_name |-> NoLabel, done |-> 0, seen |-> 0]

InitialDropdown ==
    [value |-> NoLabel, selectedOption |-> NoLabel,
     customLabel |-> NoLabel, showCustomInput |-> FALSE]

Init ==
    /\ image = [i \in Images |-> InitImage]
    /\ cluster = [c \in Clusters |-> InitCluster]
    /\ episode = InitEpisode
    /\ last = Call("none", Reject(0, "none"), "")
    /\ session = 1
    /\ step = InitialPage.step
    /\ submitting = InitialPage.submitting
    /\ error = InitialPage.error
    /\ clusterData = InitialPage.clusterData
    /\ outliersLoading = InitialPage.outliersLoading
    /\ outliersLoadError = InitialPage.outliersLoadError
    /\ currentPage = InitialPage.currentPage
    /\ pageSize = InitialPage.pageSize
    /\ paginatedData = InitialPage.paginatedData
    /\ loading = InitialPage.loading
    /\ selectedOutlierImages = InitialPage.selectedOutlierImages
    /\ outlierAnnotations = InitialPage.outlierAnnotations
    /\ batchLabel = InitialPage.batchLabel
    /\ inflight = <<>>
    /\ superseded = {}
    /\ input = NoCall
    /\ output = NoCall
    /\ dropdown = InitialDropdown
    /\ reported = NoReports
    /\ txn = [c \in Clusters |-> NoTransaction]

\* once the call is over, its time is a time before the next call
Elapse(im) ==
    [im EXCEPT !.annotated_at = IF @ = NoTime THEN NoTime ELSE Before]

\* the store after an operation with result r
Commit(r) ==
    /\ image' = [i \in Images |-> Elapse(r.db.image[i])]
    /\ cluster' = r.db.cluster
    /\ episode' = r.db.episode

mark_outliers ==
    \E c \in Clusters, ids \in SUBSET Images :
        LET r == MarkOutliers(Store, c, ids)
        IN  /\ Commit(r)
            /\ last' = Call("mark_outliers", r, MarkNote(Store, c, ids, r))
            /\ UNCHANGED <<page_vars, superseded, other_vars>>

annotate_outliers ==
    \E c \in Clusters, ids \in SUBSET Images :
        LET anns == [i \in ids |-> OutlierName(i)]
            r == AnnotateOutliers(Store, c, anns, Now)
        IN  /\ Commit(r)
            /\ last' = Call("annotate_outliers", r, OutliersNote(Store, c, ids, r))
            /\ UNCHANGED <<page_vars, superseded, other_vars>>

\* a failure inside the transaction can only meet a request that passed
\* the checks made before the first step
annotate_batch ==
    \E c \in Clusters, name \in PersonNames, failAt \in 0..BatchSteps :
        LET r == AnnotateBatch(Store, c, name, Now, failAt)
        IN  /\ failAt # 0 => r.result = "Failed"
            /\ Commit(r)
            /\ last' = Call("annotate_batch", r, BatchNote(Store, c, failAt, r))
            /\ UNCHANGED <<page_vars, superseded, other_vars>>

\* read-only; pages up to one after the last page of the cluster
get_page ==
    \E c \in Clusters, page \in 1..(NumImages + 1), size \in 1..(MaxPageSize + 1) :
        LET r == GetPage(Store, c, page, size)
        IN  /\ UNCHANGED <<image, cluster, episode>>
            /\ last' = Call("get_page", r, PageNote(r))
            /\ UNCHANGED <<page_vars, superseded, other_vars>>

Next == mark_outliers \/ annotate_outliers \/ annotate_batch

Spec == Init /\ [][Next]_vars

\* a reader paging through the clusters while outliers are marked and
\* annotated
PagingNext == mark_outliers \/ annotate_outliers \/ get_page

Paging == Init /\ [][PagingNext]_vars

(***************************************************************************)
(* Workflow Controller: rendering.  What the page shows and which of its   *)
(* controls are enabled.                                                   *)
(***************************************************************************)
\* the ReviewStep is rendered: not the loading card, not the error card
ReviewShown ==
    /\ step = "review"
    /\ paginatedData.result = "ok"
    /\ clusterData.loaded

\* variant that keeps the label step on the page when the workflow is done
BatchLabelShownDone == step \in {"batch-label", "label-remaining", "done"}

\* the BatchLabelStep is rendered (Path A step 2, Path B step 3)
BatchLabelShown == step \in {"batch-label", "label-remaining"}

\* the OutlierAnnotationStep is rendered
OutlierStepShown == step = "annotate-outliers"

\* variant that forgets the resume fetch
ReviewDisabledSubmitting == submitting

\* variant that forgets the call under way
ReviewDisabledLoadOnly == outliersLoadError \/ outliersLoading

\* the disabled prop of the ReviewStep: image grid, page size selector,
\* Previous / Next and Continue
ReviewDisabled == submitting \/ outliersLoadError \/ outliersLoading

\* variant that leaves the label steps enabled during a call
LabelDisabledNever == FALSE

\* the disabled prop of the BatchLabelStep and the OutlierAnnotationStep
LabelDisabled == submitting

\* the Save Annotation button
BatchSubmitEnabled == Trim(batchLabel) # <<>> /\ ~LabelDisabled

\* variant: one label entered is enough
OutlierSubmitEnabledAny == outlierAnnotations # NoEntries /\ ~LabelDisabled

\* the Continue to Label Remaining button
OutlierSubmitEnabled ==
    /\ Cardinality(DOMAIN outlierAnnotations) = Cardinality(DOMAIN selectedOutlierImages)
    /\ ~LabelDisabled

(***************************************************************************)
(* Workflow Controller: effects and handlers.                              *)
(***************************************************************************)
\* Map.set / Map.delete on a copy
MapSet(m, k, v) == [j \in DOMAIN m \cup {k} |-> IF j = k THEN v ELSE m[j]]

MapDelete(m, k) == [j \in DOMAIN m \ {k} |-> m[j]]

\* a sequence without its k-th element
Without(q, k) == SubSeq(q, 1, k - 1) \o SubSeq(q, k + 1, Len(q))

\* a mutating request of this session
Request(op, ids, anns, name) ==
    [session |-> session, op |-> op, ids |-> ids, anns |-> anns, name |-> name]

\* POST /clusters/annotate-outliers carries no cluster id: the cluster of
\* the request is the cluster of the images it lists
RequestCluster(q) ==
    IF q.op = "annotate_outliers" /\ q.anns # NoEntries
    THEN ClusterOf(CHOOSE i \in DOMAIN q.anns : \A j \in DOMAIN q.anns : i <= j)
    ELSE ClusterId

\* what the server makes of a request
Serve(q) ==
    IF q.op = "mark_outliers" THEN MarkOutliers(Store, RequestCluster(q), q.ids)
    ELSE IF q.op = "annotate_outliers"
    THEN AnnotateOutliers(Store, RequestCluster(q), q.anns, Now)
    ELSE AnnotateBatch(Store, RequestCluster(q), q.name, Now, 0)

ServeNote(q, r) ==
    IF q.op = "mark_outliers" THEN MarkNote(Store, RequestCluster(q), q.ids, r)
    ELSE IF q.op = "annotate_outliers"
    THEN OutliersNote(Store, RequestCluster(q), DOMAIN q.anns, r)
    ELSE BatchNote(Store, RequestCluster(q), 0, r)

\* the page variables that the handler does not set stay as they are
PageUnchanged(except) ==
    /\ IF "session" \in except THEN TRUE ELSE UNCHANGED session
    /\ IF "step" \in except THEN TRUE ELSE UNCHANGED step
    /\ IF "submitting" \in except THEN TRUE ELSE UNCHANGED submitting
    /\ IF "error" \in except THEN TRUE ELSE UNCHANGED error
    /\ IF "clusterData" \in except THEN TRUE ELSE UNCHANGED clusterData
    /\ IF "outliersLoading" \in except THEN TRUE ELSE UNCHANGED outliersLoading
    /\ IF "outliersLoadError" \in except THEN TRUE ELSE UNCHANGED outliersLoadError
    /\ IF "currentPage" \in except THEN TRUE ELSE UNCHANGED currentPage
    /\ IF "pageSize" \in except THEN TRUE ELSE UNCHANGED pageSize
    /\ IF "paginatedData" \in except THEN TRUE ELSE UNCHANGED paginatedData
    /\ IF "loading" \in except THEN TRUE ELSE UNCHANGED loading
    /\ IF "selectedOutlierImages" \in except THEN TRUE ELSE UNCHANGED selectedOutlierImages
    /\ IF "outlierAnnotations" \in except THEN TRUE ELSE UNCHANGED outlierAnnotations
    /\ IF "batchLabel" \in except THEN TRUE ELSE UNCHANGED batchLabel
    /\ IF "inflight" \in except THEN TRUE ELSE UNCHANGED inflight
    /\ IF "superseded" \in except THEN TRUE ELSE UNCHANGED superseded
    /\ UNCHANGED other_vars

StoreUnchanged == UNCHANGED <<image, cluster, episode, last>>

\* one run of a fetching effect: its request and its isCancelled flag
Fetch(kind, page, size) ==
    [kind |-> kind, page |-> page, size |-> size, isCancelled |-> FALSE]

\* the effect runs whose response is awaited and whose cleanup has not run
LiveFetches ==
    (IF clusterData.fetching THEN {Fetch("metadata", 0, 0)} ELSE {})
    \cup (IF outliersLoading THEN {Fetch("outliers", 0, 0)} ELSE {})
    \cup (IF step = "review" /\ loading
          THEN {Fetch("page", currentPage, pageSize)} ELSE {})

LivePageFetches == {f \in LiveFetches : f.kind = "page"}

\* variant of the effects without a cleanup
CancelNot(f) == f

\* the cleanup of an effect run: isCancelled = true
Cancel(f) == [f EXCEPT !.isCancelled = TRUE]

\* the cleanups of the effect runs fs have run; each of their responses is
\* still to arrive or never arrives
Supersede(fs) ==
    \E kept \in SUBSET fs : superseded' = superseded \cup {Cancel(f) : f \in kept}

\* no response of a superseded fetch is still to arrive
NoneLate == superseded' = {}

\* the page is left and opened again: a new instance with fresh state; the
\* requests the old instance has sent stay on their way
Reopen ==
    /\ session < MaxSessions
    /\ session' = session + 1
    /\ step' = InitialPage.step
    /\ submitting' = InitialPage.submitting
    /\ error' = InitialPage.error
    /\ clusterData' = InitialPage.clusterData
    /\ outliersLoading' = InitialPage.outliersLoading
    /\ outliersLoadError' = InitialPage.outliersLoadError
    /\ currentPage' = InitialPage.currentPage
    /\ pageSize' = InitialPage.pageSize
    /\ paginatedData' = InitialPage.paginatedData
    /\ loading' = InitialPage.loading
    /\ selectedOutlierImages' = InitialPage.selectedOutlierImages
    /\ outlierAnnotations' = InitialPage.outlierAnnotations
    /\ batchLabel' = InitialPage.batchLabel
    /\ Supersede(LiveFetches)
    /\ UNCHANGED <<inflight, other_vars>>
    /\ StoreUnchanged

\* variant of loadMetadata that does not look at isCancelled
MetadataAnsweredUnguarded(f, failed) ==
    /\ clusterData' =
           IF failed THEN [clusterData EXCEPT !.fetching = FALSE]
           ELSE [loaded |-> TRUE, fetching |-> FALSE,
                 has_outliers |-> cluster[ClusterId].has_outliers]
    /\ error' = (error \/ failed)

\* the rest of loadMetadata once the response of run f is there
MetadataAnswered(f, failed) ==
    IF f.isCancelled
    THEN UNCHANGED <<clusterData, error>>
    ELSE /\ clusterData' =
                IF failed THEN [clusterData EXCEPT !.fetching = FALSE]
                ELSE [loaded |-> TRUE, fetching |-> FALSE,
                      has_outliers |-> cluster[ClusterId].has_outliers]
         /\ error' = (error \/ failed)

\* the answer to clusterApi.get(clusterId)
loadMetadata ==
    /\ clusterData.fetching
    /\ \E failed \in BOOLEAN : MetadataAnswered(Fetch("metadata", 0, 0), failed)
    /\ PageUnchanged({"clusterData", "error"})
    /\ StoreUnchanged

\* variant in which the record of the server replaces the user's
MergeOutliersOverwrite(prev, db, fetched) ==
    [i \in DOMAIN prev \cup fetched |->
        IF i \in fetched THEN ImageOut(db, i) ELSE prev[i]]

\* merge: the selections of the user stay, the persisted outliers are added
MergeOutliers(prev, db, fetched) ==
    [i \in DOMAIN prev \cup fetched |->
        IF i \in DOMAIN prev THEN prev[i] ELSE ImageOut(db, i)]

\* variant that takes every failure, also a 404, for an error
IsLoadFailureAny(answer) == answer # "ok"

\* axios.isAxiosError(err) && err.response?.status !== 404
IsLoadFailure(answer) == answer \in {"500", "network"}

\* the rest of loadExistingOutliers once the answer to run f is there
OutliersAnswered(f, answer) ==
    IF f.isCancelled
    THEN UNCHANGED <<selectedOutlierImages, outliersLoadError, outliersLoading>>
    ELSE /\ selectedOutlierImages' =
                IF answer = "ok"
                THEN MergeOutliers(selectedOutlierImages, Store, OutliersOf(Store, ClusterId))
                ELSE selectedOutlierImages
         /\ outliersLoadError' =
                IF answer = "ok" THEN FALSE
                ELSE IF IsLoadFailure(answer) THEN TRUE
                ELSE outliersLoadError
         /\ outliersLoading' = FALSE

\* the answers to clusterApi.getOutliers(clusterId) the store allows: the
\* persisted outliers, a 404 for a cluster without persisted outliers, a
\* server error, or no response at all
OutlierAnswers ==
    {"ok", "500", "network"}
    \cup (IF OutliersOf(Store, ClusterId) = {} THEN {"404"} ELSE {})

loadExistingOutliers ==
    /\ outliersLoading
    /\ \E answer \in OutlierAnswers :
           /\ OutliersAnswered(Fetch("outliers", 0, 0), answer)
           /\ last' = [op |-> "get_outliers", result |-> answer, note |-> ""]
    /\ PageUnchanged({"selectedOutlierImages", "outliersLoadError", "outliersLoading"})
    /\ UNCHANGED <<image, cluster, episode>>

\* the rest of loadImages once the response of run f is there
PageAnswered(f, failed) ==
    IF f.isCancelled
    THEN UNCHANGED <<paginatedData, error, loading>>
    ELSE /\ paginatedData' =
                IF failed THEN paginatedData
                ELSE GetPage(Store, ClusterId, f.page, f.size)
         /\ error' = (error \/ failed)
         /\ loading' = FALSE

\* the answer to the page request of the current effect run
loadImages ==
    /\ step = "review"
    /\ loading
    /\ \E failed \in BOOLEAN :
           PageAnswered(Fetch("page", currentPage, pageSize), failed)
    /\ PageUnchanged({"paginatedData", "error", "loading"})
    /\ StoreUnchanged

\* the response of a superseded effect run arrives
lateResponse ==
    /\ \E f \in superseded :
           /\ superseded' = superseded \ {f}
           /\ IF f.kind = "metadata"
              THEN /\ \E failed \in BOOLEAN : MetadataAnswered(f, failed)
                   /\ PageUnchanged({"superseded", "clusterData", "error"})
              ELSE IF f.kind = "outliers"
              THEN /\ \E answer \in OutlierAnswers : OutliersAnswered(f, answer)
                   /\ PageUnchanged({"superseded", "selectedOutlierImages",
                                     "outliersLoadError", "outliersLoading"})
              ELSE /\ \E failed \in BOOLEAN : PageAnswered(f, failed)
                   /\ PageUnchanged({"superseded", "paginatedData", "error", "loading"})
    /\ StoreUnchanged

toggleOutlier ==
    /\ ReviewShown
    /\ ~ReviewDisabled
    /\ \E k \in 1..Len(paginatedData.images) :
           LET im == paginatedData.images[k]
           IN  selectedOutlierImages' =
                   IF im.id \in DOMAIN selectedOutlierImages
                   THEN MapDelete(selectedOutlierImages, im.id)
                   ELSE MapSet(selectedOutlierImages, im.id, im)
    /\ PageUnchanged({"selectedOutlierImages"})
    /\ StoreUnchanged

\* the page effect runs again after its inputs have changed: the cleanup of
\* the run before it, then setLoading(true) and setError(null)
PageEffectRerun ==
    /\ Supersede(LivePageFetches)
    /\ loading' = TRUE
    /\ error' = FALSE

\* Previous / Next: the page shown minus or plus one
handlePageChange ==
    /\ ReviewShown
    /\ ~ReviewDisabled
    /\ \E newPage \in {paginatedData.page - 1, paginatedData.page + 1} :
           /\ newPage < paginatedData.page => paginatedData.has_prev
           /\ newPage > paginatedData.page => paginatedData.has_next
           /\ currentPage' = newPage
           /\ IF newPage # currentPage
              THEN PageEffectRerun
              ELSE UNCHANGED <<superseded, loading, error>>
    /\ PageUnchanged({"currentPage", "superseded", "loading", "error"})
    /\ StoreUnchanged

\* variant that starts the selection afresh with a new page size
handlePageSizeChangeReset ==
    /\ ReviewShown
    /\ ~ReviewDisabled
    /\ \E newSize \in PageSizes :
           /\ pageSize' = newSize
           /\ currentPage' = 1
           /\ IF newSize # pageSize \/ currentPage # 1
              THEN PageEffectRerun
              ELSE UNCHANGED <<superseded, loading, error>>
    /\ selectedOutlierImages' = NoEntries
    /\ PageUnchanged({"pageSize", "currentPage", "superseded", "loading", "error",
                      "selectedOutlierImages"})
    /\ StoreUnchanged

handlePageSizeChange ==
    /\ ReviewShown
    /\ ~ReviewDisabled
    /\ \E newSize \in PageSizes :
           /\ pageSize' = newSize
           /\ currentPage' = 1
           /\ IF newSize # pageSize \/ currentPage # 1
              THEN PageEffectRerun
              ELSE UNCHANGED <<superseded, loading, error>>
    /\ PageUnchanged({"pageSize", "currentPage", "superseded", "loading", "error"})
    /\ StoreUnchanged

needsOutlierSync ==
    clusterData.has_outliers \/ selectedOutlierImages # NoEntries

\* Continue: a mark_outliers request with the keys of the selection, or
\* straight to the batch label
handleContinue ==
    /\ ReviewShown
    /\ ~ReviewDisabled
    /\ IF needsOutlierSync
       THEN /\ submitting' = TRUE
            /\ error' = FALSE
            /\ inflight' = Append(inflight,
                   Request("mark_outliers", DOMAIN selectedOutlierImages, NoEntries, NoLabel))
            /\ PageUnchanged({"submitting", "error", "inflight"})
       ELSE /\ step' = "batch-label"
            /\ Supersede(LivePageFetches)
            /\ PageUnchanged({"step", "superseded"})
    /\ StoreUnchanged

\* the labels the batch label control can hand to the page: none, a
\* name, blanks, a name with blanks around it
BatchLabels == {NoLabel, <<" ">>, <<" ", "M", " ">>} \cup ValidNames

handleBatchLabelChange ==
    /\ BatchLabelShown
    /\ ~LabelDisabled
    /\ \E label \in BatchLabels : batchLabel' = label
    /\ PageUnchanged({"batchLabel"})
    /\ StoreUnchanged

\* variant that sends the label as it was entered
BatchPersonNameRaw == batchLabel

\* person_name of the annotate_batch request
BatchPersonName == Trim(batchLabel)

handleBatchSubmit ==
    /\ BatchLabelShown
    /\ BatchSubmitEnabled
    /\ Trim(batchLabel) # <<>>
    /\ submitting' = TRUE
    /\ error' = FALSE
    /\ inflight' = Append(inflight,
           Request("annotate_batch", {}, NoEntries, BatchPersonName))
    /\ PageUnchanged({"submitting", "error", "inflight"})
    /\ StoreUnchanged

\* variant: the selected images of the page shown last
outlierImagesArrayOnPage ==
    {paginatedData.images[k].id : k \in 1..Len(paginatedData.images)}
        \cap DOMAIN selectedOutlierImages

\* the images the OutlierAnnotationStep renders a label control for
outlierImagesArray == DOMAIN selectedOutlierImages

\* variant with a label control for every image of the cluster
handleOutlierLabelChangeAnyImage ==
    /\ OutlierStepShown
    /\ ~LabelDisabled
    /\ \E i \in ImagesOf(ClusterId) : \E label \in {NoLabel, OutlierName(i)} :
           outlierAnnotations' =
               IF label # <<>>
               THEN MapSet(outlierAnnotations, i, label)
               ELSE MapDelete(outlierAnnotations, i)
    /\ PageUnchanged({"outlierAnnotations"})
    /\ StoreUnchanged

\* the label control of a selected outlier reports a label or the empty one
handleOutlierLabelChange ==
    /\ OutlierStepShown
    /\ ~LabelDisabled
    /\ \E i \in outlierImagesArray : \E label \in {NoLabel, OutlierName(i)} :
           outlierAnnotations' =
               IF label # <<>>
               THEN MapSet(outlierAnnotations, i, label)
               ELSE MapDelete(outlierAnnotations, i)
    /\ PageUnchanged({"outlierAnnotations"})
    /\ StoreUnchanged

\* the reviewer enters a label for an outlier that has none
labelRemaining ==
    /\ handleOutlierLabelChange
    /\ Cardinality(DOMAIN outlierAnnotations') > Cardinality(DOMAIN outlierAnnotations)

handleOutliersSubmit ==
    /\ OutlierStepShown
    /\ OutlierSubmitEnabled
    /\ Cardinality(DOMAIN outlierAnnotations) = Cardinality(DOMAIN selectedOutlierImages)
    /\ submitting' = TRUE
    /\ error' = FALSE
    /\ inflight' = Append(inflight,
           Request("annotate_outliers", DOMAIN outlierAnnotations,
                   [i \in DOMAIN outlierAnnotations |-> Trim(outlierAnnotations[i])],
                   NoLabel))
    /\ PageUnchanged({"submitting", "error", "inflight"})
    /\ StoreUnchanged

\* Path A / Path B after the sync, by the selection the handler sent
StepAfterMark(q) ==
    IF Cardinality(q.ids) = 0 THEN "batch-label" ELSE "annotate-outliers"

\* variant in which the outlier step completes the workflow
StepAfterDirect(q) ==
    IF q.op = "mark_outliers" THEN StepAfterMark(q) ELSE "done"

\* the step the handler sets after its request has succeeded
StepAfter(q) ==
    IF q.op = "mark_outliers" THEN StepAfterMark(q)
    ELSE IF q.op = "annotate_outliers" THEN "label-remaining"
    ELSE "done"

\* variant in which the handler goes on whatever the answer
SucceededAlways(r) == TRUE

\* the awaited call resolves (the rest of the try block runs) or throws
Succeeded(r) == r.result = "ok"

\* variant that resets the flag in the try block only
SubmittingAfterSuccessOnly(r) == ~Succeeded(r)

\* finally: setSubmitting(false)
SubmittingAfter(r) == FALSE

\* a request of this session is answered: the server has run it, or the
\* transport has failed before the server saw it; then the rest of the
\* handler runs (try / catch / finally)
Resolve ==
    \E k \in 1..Len(inflight), lost \in BOOLEAN :
        LET q == inflight[k]
            r == IF lost THEN Reject(Store, "NetworkError") ELSE Serve(q)
        IN  /\ q.session = session
            /\ Commit(r)
            /\ last' = IF lost THEN Call(q.op, r, "") ELSE Call(q.op, r, ServeNote(q, r))
            /\ inflight' = Without(inflight, k)
            /\ step' = IF Succeeded(r) THEN StepAfter(q) ELSE step
            /\ IF step = "review" /\ step' # step
               THEN Supersede(LivePageFetches)
               ELSE UNCHANGED superseded
            /\ error' = (error \/ r.result # "ok")
            /\ submitting' = SubmittingAfter(r)
            /\ PageUnchanged({"inflight", "step", "error", "submitting", "superseded"})

\* a request of an instance that is gone reaches the server; nobody takes
\* the answer
ServeOrphan ==
    \E k \in 1..Len(inflight) :
        LET q == inflight[k]
            r == Serve(q)
        IN  /\ q.session # session
            /\ Commit(r)
            /\ last' = Call(q.op, r, ServeNote(q, r))
            /\ inflight' = Without(inflight, k)
            /\ PageUnchanged({"inflight"})

\* the reviewer selects outliers on the page shown first and takes the
\* cluster through the steps; no response of a superseded fetch arrives late
WorkflowNext ==
    \/ Reopen /\ NoneLate
    \/ loadMetadata
    \/ loadExistingOutliers
    \/ loadImages
    \/ toggleOutlier
    \/ handleContinue /\ NoneLate
    \/ handleBatchLabelChange
    \/ handleBatchSubmit
    \/ handleOutlierLabelChange
    \/ handleOutliersSubmit
    \/ Resolve /\ NoneLate
    \/ ServeOrphan

Workflow == Init /\ [][WorkflowNext]_vars

\* the page is left and opened again while none of its requests is on its way
ReopenIdle == inflight = <<>> /\ Reopen /\ NoneLate

\* the review step with its page navigation, up to the outlier sync; the
\* page is reopened only between requests and no response of a superseded
\* fetch arrives late
ReviewNext ==
    \/ ReopenIdle
    \/ loadMetadata
    \/ loadExistingOutliers
    \/ loadImages
    \/ toggleOutlier
    \/ handlePageChange /\ NoneLate
    \/ handlePageSizeChange /\ NoneLate
    \/ handleContinue /\ NoneLate
    \/ Resolve /\ NoneLate

Review == Init /\ [][ReviewNext]_vars

\* the fetches of the page under page navigation and reopening, with the
\* responses of superseded fetches arriving in any order
FetchingNext ==
    \/ Reopen
    \/ loadMetadata
    \/ loadExistingOutliers
    \/ loadImages
    \/ lateResponse
    \/ handlePageChange
    \/ handlePageSizeChange

Fetching == Init /\ [][FetchingNext]_vars

(***************************************************************************)
(* Functions of the frontend, applied to arguments drawn from small sets.  *)
(***************************************************************************)
\* the functional update of the resume merge, applied to a selection the
\* user holds (records as the page showed them) and the outliers the
\* server has persisted
resumeMerge ==
    /\ input = NoCall
    /\ \E mine \in SUBSET ImagesOf(ClusterId), ids \in SUBSET ImagesOf(ClusterId) :
           LET prev == [i \in mine |-> ImageOut(Store, i)]
               db == MarkOutliers(Store, ClusterId, ids).db
           IN  /\ input' = [fn |-> "merge", prev |-> prev,
                            fetched |-> [i \in ids |-> ImageOut(db, i)]]
               /\ output' = MergeOutliers(prev, db, ids)
    /\ UNCHANGED <<page_vars, superseded, dropdown, reported, txn>>
    /\ StoreUnchanged

\* longest cluster list given to sortClusters
MaxClusters == 3

\* cluster names: a text and a number, as in "Cluster 10"
NameTexts == <<"Cluster", "Group">>

NameNumbers == {1, 2, 10}

ClusterNames ==
    [text : {NameTexts[k] : k \in DOMAIN NameTexts}, number : NameNumbers]

ClusterStatuses == {"pending", "completed"}

ClusterRows == [cluster_name : ClusterNames, annotation_status : ClusterStatuses]

\* a cluster list of an episode: ids in the order of the list
WithIds(rows) ==
    [k \in DOMAIN rows |-> [id |-> k, cluster_name |-> rows[k].cluster_name,
                            annotation_status |-> rows[k].annotation_status]]

\* the decimal digits of a number below 100
Digits(n) == IF n < 10 THEN <<n>> ELSE <<n \div 10, n % 10>>

\* variant without { numeric: true }: the numbers compared digit by digit
NumberOrderByDigits(a, b) ==
    LET x == Digits(a)
        y == Digits(b)
    IN  IF x[1] # y[1] THEN (IF x[1] < y[1] THEN -1 ELSE 1)
        ELSE IF Len(x) # Len(y) THEN (IF Len(x) < Len(y) THEN -1 ELSE 1)
        ELSE IF Len(x) = 1 \/ x[2] = y[2] THEN 0
        ELSE IF x[2] < y[2] THEN -1 ELSE 1

\* { numeric: true }: runs of digits compared as numbers
NumberOrder(a, b) == IF a < b THEN -1 ELSE IF a > b THEN 1 ELSE 0

TextIndex(t) == CHOOSE k \in DOMAIN NameTexts : NameTexts[k] = t

\* a.localeCompare(b, undefined, { numeric: true })
localeCompare(a, b) ==
    IF a.text # b.text
    THEN (IF TextIndex(a.text) < TextIndex(b.text) THEN -1 ELSE 1)
    ELSE NumberOrder(a.number, b.number)

\* the comparator of sortClusters
CompareClusters(a, b) ==
    IF a.annotation_status = "pending" /\ b.annotation_status # "pending" THEN -1
    ELSE IF a.annotation_status # "pending" /\ b.annotation_status = "pending" THEN 1
    ELSE localeCompare(a.cluster_name, b.cluster_name)

\* Array.prototype.sort is stable: x goes before the first element that
\* the comparator puts after it
RECURSIVE InsertSorted(_, _)
InsertSorted(x, sorted) ==
    IF sorted = <<>> THEN <<x>>
    ELSE IF CompareClusters(x, Head(sorted)) < 0 THEN <<x>> \o sorted
    ELSE <<Head(sorted)>> \o InsertSorted(x, Tail(sorted))

RECURSIVE SortedCopy(_)
SortedCopy(cs) ==
    IF cs = <<>> THEN <<>>
    ELSE InsertSorted(cs[Len(cs)], SortedCopy(SubSeq(cs, 1, Len(cs) - 1)))

\* variant that sorts the array it is given: clusters.sort(...)
ArrayAfterSortInPlace(cs) == SortedCopy(cs)

\* [...clusters].sort(...): the array of the caller after the call
ArrayAfterSort(cs) == cs

sortClusters ==
    /\ input = NoCall
    /\ \E n \in 0..MaxClusters : \E rows \in [1..n -> ClusterRows] :
           LET cs == WithIds(rows)
           IN  /\ input' = [fn |-> "sortClusters", given |-> cs,
                            clusters |-> ArrayAfterSort(cs)]
               /\ output' = SortedCopy(cs)
    /\ UNCHANGED <<page_vars, superseded, dropdown, reported, txn>>
    /\ StoreUnchanged

FunctionsNext ==
    \/ resumeMerge
    \/ sortClusters

Functions == Init /\ [][FunctionsNext]_vars

(***************************************************************************)
(* Requests.                                                               *)
(***************************************************************************)
\* the annotations of an annotate_outliers request for the image ids
Annotations(ids) == [i \in ids |-> OutlierName(i)]

Completed(c) == cluster[c].annotation_status = "completed"

OutlierCountInvariant ==
    \A c \in Clusters :
        /\ cluster[c].outlier_count = Cardinality(OutliersOf(Store, c))
        /\ cluster[c].has_outliers <=> cluster[c].outlier_count > 0

OutliersDoNotComplete ==
    [][/\ last'.op = "annotate_outliers" =>
            /\ episode' = episode
            /\ \A c \in Clusters :
                   /\ cluster'[c].annotation_status = cluster[c].annotation_status
                   /\ cluster'[c].person_name = cluster[c].person_name
       /\ \A c \in Clusters :
              (cluster'[c].annotation_status = "completed" /\ ~Completed(c)) =>
                  last'.op = "annotate_batch" /\ last'.result = "ok"]_vars

\* an annotate_outliers call has labelled the last unlabelled images of a
\* cluster, which is still pending
OutliersDoNotCompleteWitness ==
    /\ last.op = "annotate_outliers"
    /\ last.result = "ok"
    /\ last.note = "labelled"
    /\ \E c \in Clusters : AnnotatedOf(Store, c) = ImagesOf(c) /\ ~Completed(c)

(***************************************************************************)
(* Properties of the Outlier Synchronizer, continued.                      *)
(***************************************************************************)
\* C8: mark_outliers is idempotent: a second call with the same cluster and
\* the same ids, right after the first, has the same outcome, leaves the
\* same store (statuses, outlier_count, has_outliers) and returns the same
\* count.
MarkIdempotent ==
    \A c \in Clusters, ids \in SUBSET Images :
        LET r1 == MarkOutliers(Store, c, ids)
            r2 == MarkOutliers(r1.db, c, ids)
        IN  /\ r2.result = r1.result
            /\ r2.db = r1.db
            /\ r2.count = r1.count

\* a mark_outliers call repeated the non-empty set the store already held
MarkIdempotentWitness ==
    /\ last.op = "mark_outliers"
    /\ last.result = "ok"
    /\ last.note = "repeat"

(***************************************************************************)
(* Properties of the Batch Annotation Operator.                            *)
(***************************************************************************)
CompletedClusters == {c \in Clusters : Completed(c)}

BatchAllOrNothing ==
    /\ \A c \in CompletedClusters : cluster[c].person_name # NoLabel
    /\ Cardinality(CompletedClusters) = episode.annotated_clusters
    /\ \A c \in Clusters, name \in PersonNames, failAt \in 0..BatchSteps :
           LET r == AnnotateBatch(Store, c, name, Now, failAt)
           IN  IF r.result = "ok"
               THEN /\ PendingOf(r.db, c) = {}
                    /\ \A i \in PendingOf(Store, c) :
                           /\ r.db.image[i].annotation_status = "annotated"
                           /\ r.db.image[i].current_label = name
                    /\ r.db.cluster[c].annotation_status = "completed"
                    /\ r.db.cluster[c].person_name = name
                    /\ r.db.episode.annotated_clusters = episode.annotated_clusters + 1
               ELSE r.db = Store

\* an annotate_batch call failed after it had labelled images in its
\* transaction, and a cluster is still pending with pending images
BatchAllOrNothingWitness ==
    /\ last.op = "annotate_batch"
    /\ last.result = "Failed"
    /\ last.note = "undone"
    /\ \E c \in Clusters : ~Completed(c) /\ PendingOf(Store, c) # {}

(***************************************************************************)
(* Life cycle of an image.                                                 *)
(***************************************************************************)
StatusMoves ==
    {<<"pending", "outlier">>, <<"outlier", "pending">>,
     <<"pending", "annotated">>, <<"outlier", "annotated">>}

RECURSIVE PagesFrom(_, _, _, _, _)
\* the ids of pages from .. to of cluster c, one page after the other
PagesFrom(db, c, size, from, to) ==
    IF from > to THEN <<>>
    ELSE PageIds(GetPage(db, c, from, size)) \o PagesFrom(db, c, size, from + 1, to)

\* the store of the next state
StoreNext == [image |-> image', cluster |-> cluster', episode |-> episode']

Unresolved == {k \in 1..Len(inflight) : inflight[k].session = session}

\* in this step a request of this session was answered with the result
\* held by last in the next state
Answered(op) ==
    /\ \E k \in Unresolved : inflight' = Without(inflight, k)
    /\ session' = session
    /\ ~submitting'
    /\ last'.op = op

StepMoves ==
    {<<"review", "batch-label">>, <<"review", "annotate-outliers">>,
     <<"annotate-outliers", "label-remaining">>,
     <<"batch-label", "done">>, <<"label-remaining", "done">>}

\* C14: within a session the step changes only along review -> batch-label,
\* review -> annotate-outliers, annotate-outliers -> label-remaining,
\* batch-label -> done and label-remaining -> done; it becomes
\* label-remaining only in a step that takes the answer of a successful
\* annotate_outliers call, and done only in one that takes the answer of a
\* successful annotate_batch call.
StepTransitions ==
    [][(session' = session /\ step' # step) =>
           /\ <<step, step'>> \in StepMoves
           /\ step' = "label-remaining" =>
                  Answered("annotate_outliers") /\ last'.result = "ok"
           /\ step' = "done" =>
                  Answered("annotate_batch") /\ last'.result = "ok"]_vars

\* the workflow is done by way of the outlier path: the cluster is
\* completed and holds an image with another label than the cluster's
StepTransitionsWitness ==
    /\ step = "done"
    /\ Completed(ClusterId)
    /\ \E i \in ImagesOf(ClusterId) :
           /\ image[i].annotation_status = "annotated"
           /\ image[i].current_label # cluster[ClusterId].person_name

\* C15: done is terminal: once the step of a session is done it stays done
\* and the session sends no further mark_outliers, annotate_outliers or
\* annotate_batch request.
DoneTerminal ==
    [][(step = "done" /\ session' = session) =>
           /\ step' = "done"
           /\ Len(inflight') <= Len(inflight)
           /\ ~submitting']_vars

\* a session is done, nothing of it is on its way, and the page could
\* still be opened again
DoneTerminalWitness ==
    /\ step = "done"
    /\ Unresolved = {}
    /\ batchLabel # NoLabel
    /\ last.op = "annotate_batch"
    /\ last.result = "ok"

\* C16: the step leaves review only in a step that takes the answer of a
\* successful mark_outliers call: every Continue, also one with an empty
\* candidate set, syncs the selection with the server first.
ContinueAlwaysSyncs ==
    [][(step = "review" /\ session' = session /\ step' # "review") =>
           Answered("mark_outliers") /\ last'.result = "ok"]_vars

\* C17: after a successful outlier sync the step is batch-label exactly
\* when the server holds no outlier image of the cluster, and
\* annotate-outliers otherwise.
RoutedByServerCount ==
    [][(step = "review" /\ Answered("mark_outliers") /\ last'.result = "ok") =>
           step' = IF OutliersOf(StoreNext, ClusterId) = {}
                   THEN "batch-label" ELSE "annotate-outliers"]_vars

\* C18: at most one mutating request of a session is unresolved at any
\* time, the page is submitting while it is, and no step sends a request
\* while another one of the session is unresolved.
OneCallInFlight ==
    /\ Cardinality(Unresolved) <= 1
    /\ Unresolved # {} => submitting

\* a batch annotation is on its way and the label steps are disabled
OneCallInFlightWitness ==
    /\ Cardinality(Unresolved) = 1
    /\ submitting
    /\ BatchLabelShown
    /\ \E k \in Unresolved : inflight[k].op = "annotate_batch"

\* C19: while a mutating call of the session is in flight the review
\* controls and the label controls are disabled and no step changes the
\* candidate selection, the page or the page size, so that the selection
\* held when the answer arrives is the set that was sent.
SelectionFrozen ==
    /\ [](\A k \in Unresolved :
             /\ ReviewDisabled /\ LabelDisabled
             /\ inflight[k].op = "mark_outliers" =>
                    inflight[k].ids = DOMAIN selectedOutlierImages)
    /\ [][(Unresolved # {} /\ session' = session) =>
             /\ selectedOutlierImages' = selectedOutlierImages
             /\ currentPage' = currentPage
             /\ pageSize' = pageSize]_vars

\* an outlier sync is on its way from a page after the first one, with a
\* selection of more than one image
SelectionFrozenWitness ==
    /\ step = "review"
    /\ submitting
    /\ paginatedData.has_prev
    /\ \E k \in Unresolved :
           inflight[k].op = "mark_outliers" /\ Cardinality(inflight[k].ids) > 1

\* C20: in the annotate-outliers step the continue action is enabled only
\* when every selected outlier has a non-empty label, and every
\* annotate_outliers request of the session carries a non-empty name for
\* every selected outlier (so clearing one label disables the action).
AllOutliersLabelled ==
    /\ (OutlierStepShown /\ OutlierSubmitEnabled) =>
           \A i \in DOMAIN selectedOutlierImages :
               /\ i \in DOMAIN outlierAnnotations
               /\ Trim(outlierAnnotations[i]) # <<>>
    /\ \A k \in Unresolved :
           inflight[k].op = "annotate_outliers" =>
               /\ DOMAIN inflight[k].anns = DOMAIN selectedOutlierImages
               /\ \A i \in DOMAIN inflight[k].anns : inflight[k].anns[i] # <<>>

\* the labels of two outliers are on their way to the server
AllOutliersLabelledWitness ==
    /\ OutlierStepShown
    /\ submitting
    /\ \E k \in Unresolved :
           /\ inflight[k].op = "annotate_outliers"
           /\ Cardinality(DOMAIN inflight[k].anns) > 1

(***************************************************************************)
(* Properties of the fetches of the annotation page.                       *)
(***************************************************************************)
\* C21: the resume merge is an additive union keyed by image id: the keys
\* of the merged selection are the keys held before together with the
\* fetched outlier ids, every image selected before keeps its record, and
\* every other fetched image is added with the fetched record.
ResumeMergeAdditive ==
    (input # NoCall /\ input.fn = "merge") =>
        /\ DOMAIN output = DOMAIN input.prev \cup DOMAIN input.fetched
        /\ \A i \in DOMAIN input.prev : output[i] = input.prev[i]
        /\ \A i \in DOMAIN input.fetched \ DOMAIN input.prev :
               output[i] = input.fetched[i]

\* the user holds an image that the server has persisted as an outlier,
\* with another record, and the server has persisted a further one
ResumeMergeAdditiveWitness ==
    /\ input # NoCall
    /\ input.fn = "merge"
    /\ \E i \in DOMAIN input.prev \cap DOMAIN input.fetched :
           input.prev[i] # input.fetched[i]
    /\ DOMAIN input.fetched \ DOMAIN input.prev # {}
    /\ DOMAIN output = DOMAIN input.prev \cup DOMAIN input.fetched

\* in this step the resume fetch of the session was answered with the
\* given answer
Resumed(answers) ==
    /\ session' = session
    /\ outliersLoading /\ ~outliersLoading'
    /\ last'.op = "get_outliers"
    /\ last'.result \in answers

\* C22: when the resume fetch is answered with a 404, no error is set
\* (neither the error of the page nor the load error), the candidate
\* selection stays as it is, and the review controls are enabled from then.
NotFoundIsNoError ==
    [][Resumed({"404"}) =>
           /\ ~outliersLoadError'
           /\ error' = error
           /\ selectedOutlierImages' = selectedOutlierImages
           /\ ~ReviewDisabled']_vars

\* the fetch was answered with a 404 and the review step is shown, enabled
NotFoundIsNoErrorWitness ==
    /\ last.op = "get_outliers"
    /\ last.result = "404"
    /\ ReviewShown
    /\ ~ReviewDisabled
    /\ ~error

ArrivedLate(kinds) ==
    \E f \in superseded : f.kind \in kinds /\ superseded' = superseded \ {f}

\* C24: the response of a superseded page request changes neither the page
\* data nor the loading flag nor the error, and whenever the page data of
\* a page instance changes it becomes the response to the request issued
\* last (the current page and page size), whatever the order in which the
\* responses arrive.
LastIssuedPageWins ==
    [][/\ ArrivedLate({"page"}) => UNCHANGED <<paginatedData, loading, error>>
       /\ (session' = session /\ paginatedData' # paginatedData) =>
              /\ loading /\ ~loading'
              /\ paginatedData'.page = currentPage
              /\ paginatedData'.page_size = pageSize]_vars

\* the response to the request issued last is shown while the response of
\* an earlier request for another page is still to arrive
LastIssuedPageWinsWitness ==
    /\ paginatedData.result = "ok"
    /\ paginatedData.page = currentPage
    /\ paginatedData.page_size = pageSize
    /\ ~loading
    /\ \E f \in superseded :
           f.kind = "page" /\ (f.page # currentPage \/ f.size # pageSize)

\* C25: a response, success or failure, of a metadata fetch or a resume
\* fetch whose page instance is gone changes neither the cluster record,
\* the candidate selection, the errors nor the loading flags.
CancelledFetchesIgnored ==
    [][ArrivedLate({"metadata", "outliers"}) =>
           UNCHANGED <<clusterData, selectedOutlierImages, error,
                       outliersLoadError, outliersLoading, loading>>]_vars

\* the page was opened again, its own two fetches are answered, and both
\* fetches of the instance before it are still to arrive
CancelledFetchesIgnoredWitness ==
    /\ session > 1
    /\ clusterData.loaded
    /\ ~outliersLoading
    /\ \E f \in superseded : f.kind = "metadata"
    /\ \E f \in superseded : f.kind = "outliers"

\* the operations that change the store
MutatingOps == {"mark_outliers", "annotate_outliers", "annotate_batch"}

\* C26: when a mutating call fails the step stays, the error is set and
\* the step that takes the failure sends nothing; a request is sent only
\* by a step that starts a submission (a user action on an enabled
\* control), one request per step, never by the step that takes an answer.
FailureNotRetried ==
    [][/\ (\E op \in MutatingOps : Answered(op) /\ last'.result # "ok") =>
              /\ step' = step
              /\ error'
              /\ Len(inflight') = Len(inflight) - 1
       /\ (session' = session /\ Len(inflight') > Len(inflight)) =>
              /\ ~submitting /\ submitting'
              /\ Len(inflight') = Len(inflight) + 1
              /\ last' = last]_vars

\* the labels of the outliers were sent, the call has failed, and the
\* outlier step is shown with the error
FailureNotRetriedWitness ==
    /\ step = "annotate-outliers"
    /\ error
    /\ ~submitting
    /\ Unresolved = {}
    /\ last.op = "annotate_outliers"
    /\ last.result # "ok"

\* C27: changing the page or the page size and the arrival of a page
\* response leave the candidate selection as it is.
SelectionSurvivesPaging ==
    [][(/\ session' = session
        /\ \/ currentPage' # currentPage
           \/ pageSize' # pageSize
           \/ paginatedData' # paginatedData
           \/ loading' # loading) =>
           selectedOutlierImages' = selectedOutlierImages]_vars

\* an image selected on one page is held, with its record, while another
\* page is shown
SelectionSurvivesPagingWitness ==
    /\ ReviewShown
    /\ \E i \in DOMAIN selectedOutlierImages :
           /\ \A k \in 1..Len(paginatedData.images) : paginatedData.images[k].id # i
           /\ selectedOutlierImages[i].id = i

(***************************************************************************)
(* Properties of sortClusters.                                             *)
(***************************************************************************)
\* the name a comes before the name b or equals it: by text, then by number
NameBeforeOrEqual(a, b) ==
    \/ TextIndex(a.text) < TextIndex(b.text)
    \/ a.text = b.text /\ a.number <= b.number

\* C28: sortClusters returns a permutation of the list it is given in which
\* every pending cluster comes before every cluster of another status
\* and, within the pending ones and within the others, the names are in
\* order, numbers compared as numbers.
SortClustersOrder ==
    (input # NoCall /\ input.fn = "sortClusters") =>
        /\ Len(output) = Len(input.given)
        /\ {output[k] : k \in 1..Len(output)}
               = {input.given[k] : k \in 1..Len(input.given)}
        /\ \A i, j \in 1..Len(output) :
               i < j =>
                   /\ output[j].annotation_status = "pending"
                          => output[i].annotation_status = "pending"
                   /\ (output[i].annotation_status = "pending")
                        = (output[j].annotation_status = "pending")
                          => NameBeforeOrEqual(output[i].cluster_name,
                                               output[j].cluster_name)

\* Cluster 10 was given before Cluster 2, both pending, after a completed
\* cluster
SortClustersOrderWitness ==
    /\ input # NoCall
    /\ input.fn = "sortClusters"
    /\ Len(input.given) = MaxClusters
    /\ input.given[1].annotation_status = "completed"
    /\ \E i, j \in 1..Len(input.given) :
           /\ i < j
           /\ input.given[i].annotation_status = "pending"
           /\ input.given[j].annotation_status = "pending"
           /\ input.given[i].cluster_name.text = input.given[j].cluster_name.text
           /\ input.given[i].cluster_name.number = 10
           /\ input.given[j].cluster_name.number = 2
    /\ output[1].cluster_name.number = 2

MaxLabelLen == 3

Blank == " "

Chars == {Blank, "r"}

Texts == UNION {[1..n -> Chars] : n \in 0..MaxLabelLen}

\* the speakers prop: the options of the select
speakers == << <<"R">> >>

\* the option that opens the custom input
Other == <<"Other">>

Options == {NoLabel, Other} \cup {speakers[k] : k \in DOMAIN speakers}

Keys == {"Enter", "r"}

toLowerCase(t) == [k \in DOMAIN t |-> IF t[k] = "R" THEN "r" ELSE t[k]]

RECURSIVE trimStart(_)
trimStart(t) ==
    IF t # <<>> /\ Head(t) = Blank THEN trimStart(Tail(t)) ELSE t

RECURSIVE trimEnd(_)
trimEnd(t) ==
    IF t # <<>> /\ t[Len(t)] = Blank THEN trimEnd(SubSeq(t, 1, Len(t) - 1)) ELSE t

trim(t) == trimEnd(trimStart(t))

\* the effect on [value]: the state follows the value the parent passes down
valueEffect(d) ==
    IF d.value # NoLabel
    THEN LET matches == {k \in DOMAIN speakers : toLowerCase(speakers[k]) = toLowerCase(d.value)}
         IN  IF matches # {}
             THEN [d EXCEPT !.selectedOption = speakers[CHOOSE k \in matches : \A m \in matches : k <= m],
                            !.showCustomInput = FALSE,
                            !.customLabel = NoLabel]
             ELSE [d EXCEPT !.selectedOption = Other,
                            !.customLabel = d.value,
                            !.showCustomInput = TRUE]
    ELSE [d EXCEPT !.selectedOption = NoLabel,
                   !.customLabel = NoLabel,
                   !.showCustomInput = FALSE]

\* the parent stores the label of every onChange call and passes it back as
\* value; the effect runs when value changed
Rendered(d, calls) ==
    IF calls = <<>> \/ calls[Len(calls)].label = d.value
    THEN d
    ELSE valueEffect([d EXCEPT !.value = calls[Len(calls)].label])

\* one handler ran: d is the state it set, calls the onChange calls it made
Handled(event, key, d, calls) ==
    /\ reported' = [event |-> event, key |-> key, text |-> dropdown.customLabel, calls |-> calls]
    /\ dropdown' = Rendered(d, calls)
    /\ UNCHANGED <<image, cluster, episode, last, page_vars, superseded, input, output, txn>>

handleDropdownChange ==
    \E selected \in Options :
        IF selected = Other
        THEN Handled("select", "",
                     [dropdown EXCEPT !.selectedOption = selected,
                                      !.showCustomInput = TRUE,
                                      !.customLabel = NoLabel],
                     <<>>)
        ELSE Handled("select", "",
                     [dropdown EXCEPT !.selectedOption = selected,
                                      !.showCustomInput = FALSE,
                                      !.customLabel = NoLabel],
                     << [label |-> selected, isCustom |-> FALSE] >>)

\* the calls commitCustomLabel makes
commitCustomLabel ==
    LET trimmedLabel == trim(dropdown.customLabel)
    IN  IF trimmedLabel # NoLabel
        THEN << [label |-> trimmedLabel, isCustom |-> TRUE] >>
        ELSE <<>>

handleCustomLabelChangeCommits ==
    /\ dropdown.showCustomInput
    /\ \E text \in Texts :
           Handled("change", "", [dropdown EXCEPT !.customLabel = text],
                   IF text # NoLabel THEN << [label |-> text, isCustom |-> TRUE] >> ELSE <<>>)

handleCustomLabelChange ==
    /\ dropdown.showCustomInput
    /\ \E text \in Texts :
           Handled("change", "", [dropdown EXCEPT !.customLabel = text], <<>>)

handleCustomLabelBlur ==
    /\ dropdown.showCustomInput
    /\ Handled("blur", "", dropdown, commitCustomLabel)

handleCustomLabelKeyDown ==
    /\ dropdown.showCustomInput
    /\ \E key \in Keys :
           Handled("keydown", key, dropdown,
                   IF key = "Enter" THEN commitCustomLabel ELSE <<>>)

DropdownNext ==
    \/ handleDropdownChange
    \/ handleCustomLabelChange
    \/ handleCustomLabelBlur
    \/ handleCustomLabelKeyDown

Dropdown == Init /\ [][DropdownNext]_vars

\* the handler that ran last was a commit: a blur, or a key down of Enter
Committing ==
    \/ reported.event = "blur"
    \/ reported.event = "keydown" /\ reported.key = "Enter"

\* label is text without the blanks in front of it and behind it
IsTrimmed(label, text) ==
    /\ label # <<>>
    /\ Head(label) # Blank
    /\ label[Len(label)] # Blank
    /\ \E a \in 1..Len(text) : \E b \in a..Len(text) :
           /\ label = SubSeq(text, a, b)
           /\ \A k \in 1..Len(text) : (k < a \/ k > b) => text[k] = Blank

\* C30: a custom label is reported to the parent only by a commit (blur or
\* Enter) and never by a keystroke; a commit reports the text of the input
\* trimmed, with isCustom = TRUE, and reports nothing when the text is empty
\* after trimming.
CustomLabelOnCommitOnly ==
    /\ reported.event = "change" => reported.calls = <<>>
    /\ reported.event = "keydown" /\ reported.key # "Enter" => reported.calls = <<>>
    /\ \A k \in DOMAIN reported.calls :
           reported.calls[k].isCustom => Committing
    /\ Committing =>
           IF \A k \in DOMAIN reported.text : reported.text[k] = Blank
           THEN reported.calls = <<>>
           ELSE /\ Len(reported.calls) = 1
                /\ reported.calls[1].isCustom
                /\ IsTrimmed(reported.calls[1].label, reported.text)

\* a text with blanks around it was committed and reported without them
CustomLabelOnCommitOnlyWitness ==
    /\ Committing
    /\ Len(reported.text) = MaxLabelLen
    /\ Head(reported.text) = Blank
    /\ reported.text[Len(reported.text)] = Blank
    /\ reported.calls # <<>>
    /\ reported.calls[1].isCustom
    /\ Len(reported.calls[1].label) = MaxLabelLen - 2

\* ---------------------------------------------------------------------------
\* annotate_batch served concurrently for the clusters of one episode. Each
\* call is one transaction (section 5): its steps are taken one by one and
\* interleave with the steps of the transaction of the other cluster, its
\* writes are seen by nobody before it commits, and a failed transaction
\* leaves nothing.
\* ---------------------------------------------------------------------------
\* variant: the counter the transaction saw when it began
CounterAtCommitSnapshot(db, seen) == seen

\* the counter the increment of a committing transaction applies to
CounterAtCommit(db, seen) == db.episode.annotated_clusters

\* the checks made before the first step, on the store the call finds
batchBegin ==
    \E c \in Clusters, name \in PersonNames :
        /\ txn[c].pc \in {"none", "failed"}
        /\ AnnotateBatch(Store, c, name, Now, 0).result = "ok"
        /\ txn' = [txn EXCEPT ![c] = [pc |-> "open", person_name |-> name, done |-> 0,
                                      seen |-> episode.annotated_clusters]]
        /\ UNCHANGED <<image, cluster, episode, last, page_vars, superseded,
                       input, output, dropdown, reported>>

\* the next of the three steps, inside the transaction
batchStep ==
    \E c \in Clusters :
        /\ txn[c].pc = "open"
        /\ txn[c].done < BatchSteps
        /\ txn' = [txn EXCEPT ![c].done = @ + 1]
        /\ UNCHANGED <<image, cluster, episode, last, page_vars, superseded,
                       input, output, dropdown, reported>>

\* a failure before the commit: the transaction is rolled back
batchFail ==
    \E c \in Clusters :
        /\ txn[c].pc = "open"
        /\ txn' = [txn EXCEPT ![c].pc = "failed"]
        /\ last' = [op |-> "annotate_batch", result |-> "Failed", note |-> ""]
        /\ UNCHANGED <<image, cluster, episode, page_vars, superseded,
                       input, output, dropdown, reported>>

\* the commit makes the three steps visible at once
batchCommit ==
    \E c \in Clusters :
        /\ txn[c].pc = "open"
        /\ txn[c].done = BatchSteps
        /\ LET db == BatchPrefix(Store, c, txn[c].person_name, Now, BatchSteps - 1)
               n == CounterAtCommit(Store, txn[c].seen)
           IN  Commit(Accept(IncrementEpisode([db EXCEPT !.episode.annotated_clusters = n]), 0))
        /\ txn' = [txn EXCEPT ![c].pc = "committed"]
        /\ last' = [op |-> "annotate_batch", result |-> "ok", note |-> ""]
        /\ UNCHANGED <<page_vars, superseded, input, output, dropdown, reported>>

ConcurrentNext == batchBegin \/ batchStep \/ batchFail \/ batchCommit

Concurrent == Init /\ [][ConcurrentNext]_vars

Sends(op) ==
    /\ session' = session
    /\ Len(inflight') = Len(inflight) + 1
    /\ inflight'[Len(inflight')].op = op
    /\ inflight'[Len(inflight')].session = session

\* C33: on the outlier path the ids sent to annotate_outliers are the ids
\* sent in the preceding successful mark_outliers call of the same session:
\* the ids of the mark_outliers request whose success opens the outlier step
\* are the keys of the selection, the selection does not change during the
\* outlier step, and an annotate_outliers request is sent only in that step
\* and carries one annotation for each key of the selection and no other.
SameOutliersAnnotated ==
    [][/\ (Answered("mark_outliers") /\ step' = "annotate-outliers") =>
              \A k \in Unresolved :
                  inflight' = Without(inflight, k) =>
                      inflight[k].ids = DOMAIN selectedOutlierImages'
       /\ (session' = session /\ step = "annotate-outliers") =>
              selectedOutlierImages' = selectedOutlierImages
       /\ Sends("annotate_outliers") =>
              /\ step = "annotate-outliers"
              /\ inflight'[Len(inflight')].ids = DOMAIN selectedOutlierImages
              /\ DOMAIN inflight'[Len(inflight')].anns = DOMAIN selectedOutlierImages]_vars

\* an annotate_outliers request for two selected outliers is on its way
SameOutliersAnnotatedWitness ==
    /\ step = "annotate-outliers"
    /\ submitting
    /\ \E k \in Unresolved :
           /\ inflight[k].op = "annotate_outliers"
           /\ Cardinality(inflight[k].ids) = 2
           /\ inflight[k].ids = DOMAIN selectedOutlierImages

\* the review step with its pages and the outlier step of a reviewer who
\* labels one outlier after the other
LabellingNext ==
    \/ loadMetadata
    \/ loadExistingOutliers
    \/ loadImages
    \/ toggleOutlier
    \/ handlePageChange /\ NoneLate
    \/ handlePageSizeChange /\ NoneLate
    \/ handleContinue /\ NoneLate
    \/ Resolve /\ NoneLate
    \/ labelRemaining

Labelling == Init /\ [][LabellingNext]_vars /\ WF_vars(labelRemaining)

CompletedLeavesNothing ==
    /\ [](Completed(ClusterId) =>
              PendingOf(Store, ClusterId) \cup OutliersOf(Store, ClusterId) = {})
    /\ [][Sends("annotate_batch") => OutliersOf(Store, ClusterId) = {}]_vars

\* C36: the controller never sends annotate_batch with a person_name that is
\* empty after trimming, and the name it sends is the label without the
\* blanks around it; while the label is blank the submit is disabled and no
\* request is sent.
BatchNameTrimmed ==
    /\ [](BatchLabelShown /\ (\A k \in DOMAIN batchLabel : batchLabel[k] = Blank) =>
              ~BatchSubmitEnabled)
    /\ [][Sends("annotate_batch") =>
              /\ \E k \in DOMAIN batchLabel : batchLabel[k] # Blank
              /\ IsTrimmed(inflight'[Len(inflight')].name, batchLabel)]_vars

\* a label with blanks around the name was submitted: the request on its
\* way carries the name alone
BatchNameTrimmedWitness ==
    /\ BatchLabelShown
    /\ submitting
    /\ Len(batchLabel) = 3
    /\ \E k \in Unresolved :
           /\ inflight[k].op = "annotate_batch"
           /\ inflight[k].name = <<"M">>

\* the last page of the cluster for a page size
LastPage(size) ==
    LET pages == PageCount(Cardinality(ImagesOf(ClusterId)), size)
    IN  IF pages > 1 THEN pages ELSE 1

\* C37: every page request the controller issues, and so every page request
\* that is awaited, asks for a page between 1 and the last page of the
\* cluster for the page size of that request.
PageRequestsInRange ==
    \A f \in LivePageFetches : 1 <= f.page /\ f.page <= LastPage(f.size)

\* the submit of the step that is shown can be used
StepControlsEnabled ==
    IF step = "review" THEN ReviewShown /\ ~ReviewDisabled
    ELSE IF step = "annotate-outliers" THEN OutlierSubmitEnabled
    ELSE BatchLabelShown /\ BatchSubmitEnabled

\* the answer to a request of this session is taken in this step
TakesAnswer ==
    /\ session' = session
    /\ \E k \in Unresolved : inflight' = Without(inflight, k)

\* C38: submitting is true exactly while a mutating call of the page is
\* unresolved; the step that takes the answer of a call resets it, whether
\* the call succeeded or failed, and after a failed call the step is the
\* same and its submit can be used again.
ControlsReenabled ==
    /\ [](submitting <=> Unresolved # {})
    /\ [][TakesAnswer =>
              /\ ~submitting'
              /\ last'.result # "ok" => step' = step /\ StepControlsEnabled']_vars

\* each of the three mutating calls can fail and leave its step usable: here
\* the outlier annotations were turned down and can be sent again
ControlsReenabledWitness ==
    /\ step = "annotate-outliers"
    /\ last.op = "annotate_outliers"
    /\ last.result \notin {"ok", "none"}
    /\ error
    /\ Unresolved = {}
    /\ StepControlsEnabled

\* C39: the label the controller holds for a label control (the value it
\* passes down) is the label the control displays: while the select shows
\* the placeholder, or Other with an empty custom input, the controller
\* holds no label, and while it shows a speaker the controller holds that
\* speaker.
HeldLabelDisplayed ==
    /\ dropdown.selectedOption = NoLabel => dropdown.value = NoLabel
    /\ (dropdown.selectedOption = Other /\ dropdown.customLabel = NoLabel) =>
           dropdown.value = NoLabel
    /\ dropdown.selectedOption \notin {NoLabel, Other} =>
           toLowerCase(dropdown.value) = toLowerCase(dropdown.selectedOption)

====
